---- MODULE Spec2Model ----
(***************************************************************************)
(* Model of src/app.py: the corpus scanner (get_all_image_files), the      *)
(* feature cache (compute_and_cache_features / load_image_features under   *)
(* st.cache_data), the ranker (find_similar_images) and the Streamlit      *)
(* script that composes them, one script run after another.                *)
(*                                                                         *)
(* Strings are sequences of code points (47 = "/", 46 = "."), so that      *)
(* str.lower, str.endswith and Python's code-point ordering of sorted()    *)
(* are computed and not assumed.  Feature vectors are 2-dimensional        *)
(* integer vectors; a normalised vector is held in fixed point with the    *)
(* unit length written as 5, so <<3,4>> is a unit vector and a cosine      *)
(* similarity s is held as 25*s.                                           *)
(***************************************************************************)
EXTENDS Integers, Sequences, FiniteSets, TLC

VARIABLES
    corpus,       \* the image directory: corpus file -> image stored in it, 0 when the file is absent
    featFile,     \* FEAT_CACHE ("features.npy") on disk
    nameFile,     \* NAME_CACHE ("filenames.npy") on disk
    memo,         \* the st.cache_data entry of load_image_features, <<>> when there is none
    pc,           \* position of the current script run
    image_files,  \* script global image_files (line 113)
    image_feats,  \* script global image_feats (line 113)
    filenames,    \* local of compute_and_cache_features while a build is writing
    features,     \* local of compute_and_cache_features while a build is writing
    uploaded,     \* the file_uploader widget's value for this run: an image, or 0 for none
    tempFile,     \* the file temp/<uploaded.name>: the image stored in it, 0 when absent
    query_to_use, \* script global query_to_use (lines 128, 131)
    results,      \* script global results (line 136)
    err,          \* what the run reported: "none", "EmptyCorpus" (st.error) or the exception that ended it
    ld,           \* history of this run's call of load_image_features
    sc,           \* the scanner on its own: directory tree, walk order, returned list
    rk            \* the ranker on its own: its arguments and its result

vars == <<corpus, featFile, nameFile, memo, pc, image_files, image_feats,
          filenames, features, uploaded, tempFile, query_to_use, results,
          err, ld, sc, rk>>

----------------------------------------------------------------------------
(* Bounds of the model.                                                    *)

MaxImage == 2     \* distinct images a corpus file or an upload can hold
MaxFiles == 3     \* files in a scanned tree (scanner on its own)
MaxRows == 3      \* rows of the feature matrix (ranker on its own)
MaxTopN == 3      \* largest top_n passed to the ranker on its own

(* Program constants.                                                      *)
TOP_N == 5

----------------------------------------------------------------------------
(* Strings.                                                                *)

Min(a, b) == IF a < b THEN a ELSE b

\* str.lower() on one code point: "A".."Z" -> "a".."z"
LowerChar(c) == IF c \in 65..90 THEN c + 32 ELSE c

\* str.lower()
Lower(s) == [i \in 1..Len(s) |-> LowerChar(s[i])]

\* str.endswith(suffix)
EndsWith(s, suf) ==
    /\ Len(suf) <= Len(s)
    /\ \A i \in 1..Len(suf) : s[Len(s) - Len(suf) + i] = suf[i]

\* valid_ext = ('.jpg', '.jpeg', '.png', '.bmp', '.tiff')
valid_ext ==
    { <<46, 106, 112, 103>>,
      <<46, 106, 112, 101, 103>>,
      <<46, 112, 110, 103>>,
      <<46, 98, 109, 112>>,
      <<46, 116, 105, 102, 102>> }

\* f.lower().endswith(valid_ext): endswith with a tuple is true when any member matches
HasValidExt(f) == \E e \in valid_ext : EndsWith(Lower(f), e)

\* os.path.join(subdir, f)
PathJoin(subdir, f) == subdir \o <<47>> \o f

\* Python's str comparison a < b: by code point at the first difference,
\* a proper prefix first
StrLess(a, b) ==
    \E k \in 1..(Min(Len(a), Len(b)) + 1) :
        /\ \A i \in 1..(k - 1) : a[i] = b[i]
        /\ \/ (k = Len(a) + 1 /\ k <= Len(b))
           \/ (k <= Len(a) /\ k <= Len(b) /\ a[k] < b[k])

\* insertion of x into the sorted list s, after every element not greater than x
RECURSIVE InsertSorted(_, _)
InsertSorted(x, s) ==
    IF s = <<>> THEN <<x>>
    ELSE IF StrLess(x, Head(s)) THEN <<x>> \o s
    ELSE <<Head(s)>> \o InsertSorted(x, Tail(s))

\* sorted(files)
RECURSIVE sorted(_)
sorted(files) ==
    IF files = <<>> THEN <<>>
    ELSE InsertSorted(files[Len(files)], sorted(SubSeq(files, 1, Len(files) - 1)))

\* the loop of lines 53-56 over the entries os.walk yields, in the order it yields them
RECURSIVE CollectFiles(_)
CollectFiles(walk) ==
    IF walk = <<>> THEN <<>>
    ELSE LET e == Head(walk)
         IN  (IF HasValidExt(e.name) THEN <<PathJoin(e.dir, e.name)>> ELSE <<>>)
             \o CollectFiles(Tail(walk))

get_all_image_files_unsorted(walk) == CollectFiles(walk)

\* get_all_image_files(root_dir), given what os.walk(root_dir) yields
get_all_image_files(walk) == sorted(CollectFiles(walk))

\* every order in which os.walk can yield the files of a tree
RECURSIVE WalkOrders(_)
WalkOrders(tree) ==
    IF tree = {} THEN { <<>> }
    ELSE UNION { { <<e>> \o w : w \in WalkOrders(tree \ {e}) } : e \in tree }

----------------------------------------------------------------------------
(* Embeddings and ranking.                                                 *)

\* model.predict(...).flatten() for the image stored in a file (lines 40-45):
\* a fixed function of the image
RawFeature(img) ==
    CASE img = 1 -> <<3, 4>>
      [] img = 2 -> <<8, 6>>
      [] img = 3 -> <<5, 0>>
      [] img = 4 -> <<6, 8>>
      [] OTHER   -> <<0, 10>>

Dot(u, v) == u[1] * v[1] + u[2] * v[2]

\* Euclidean norm of a vector whose norm is an integer
Norm(v) == CHOOSE n \in 0..20 : n * n = Dot(v, v)

\* sklearn normalize, one row: v / ||v||, the unit length held as 5;
\* a zero row is left as it is
normalize(v) ==
    IF Norm(v) = 0 THEN v ELSE [i \in 1..2 |-> (v[i] * 5) \div Norm(v)]

\* cosine_similarity([qf], features_db)[0]: both sides are normalised again
\* and multiplied; the similarity s is held as 25*s
cosine_similarity(qf, features_db) ==
    [i \in 1..Len(features_db) |-> Dot(normalize(qf), normalize(features_db[i]))]

\* all the permutations of 1..n, as sequences
Perms(n) ==
    { p \in [1..n -> 1..n] : \A i, j \in 1..n : i # j => p[i] # p[j] }

argsort_ascending(sims) ==
    { p \in Perms(Len(sims)) :
        \A i, j \in 1..Len(sims) : i < j => sims[p[i]] <= sims[p[j]] }

\* np.argsort(-sims), default kind ("quicksort", documented as not stable):
\* any permutation that puts the scores in non-increasing order; which one,
\* among equal scores, is the sort routine's choice
argsort_neg(sims) ==
    { p \in Perms(Len(sims)) :
        \A i, j \in 1..Len(sims) : i < j => sims[p[i]] >= sims[p[j]] }

\* order[:top_n]
TopSlice(order, top_n) == SubSeq(order, 1, Min(top_n, Len(order)))

\* line 92 raises IndexError when an index is beyond filenames_db
IndexErrorIn(top_idx, filenames_db) ==
    \E k \in 1..Len(top_idx) : top_idx[k] > Len(filenames_db)

\* [(filenames_db[i], sims[i]) for i in top_idx]
ResultList(top_idx, sims, filenames_db) ==
    [k \in 1..Len(top_idx) |-> <<filenames_db[top_idx[k]], sims[top_idx[k]]>>]

----------------------------------------------------------------------------
(* The scanner on its own: get_all_image_files over a bounded set of       *)
(* directory trees.                                                        *)

RootDir == <<105, 109>>                 \* "im"
SubDir  == <<105, 109, 47, 115>>        \* "im/s"

\* the files a tree can hold: [dir, name]
Candidates ==
    { [dir |-> RootDir, name |-> <<97, 46, 106, 112, 103>>],        \* im/a.jpg
      [dir |-> RootDir, name |-> <<90, 46, 80, 78, 71>>],           \* im/Z.PNG
      [dir |-> SubDir,  name |-> <<97, 46, 106, 112, 103>>],        \* im/s/a.jpg
      [dir |-> RootDir, name |-> <<98, 46, 116, 120, 116>>],        \* im/b.txt
      [dir |-> RootDir, name |-> <<99, 106, 112, 103>>],            \* im/cjpg
      [dir |-> RootDir, name |-> <<100, 46, 74, 112, 101, 103>>],   \* im/d.Jpeg
      [dir |-> SubDir,  name |-> <<101, 46, 116, 105, 102, 102>>],  \* im/s/e.tiff
      [dir |-> RootDir, name |-> <<102, 46, 98, 109, 112>>],        \* im/f.bmp
      [dir |-> RootDir, name |-> <<103, 46, 116, 105, 102>>],       \* im/g.tif
      [dir |-> RootDir, name |-> <<97, 46, 106, 112, 103, 46, 103, 122>>] } \* im/a.jpg.gz

ScanIdle == [tree |-> {}, walk |-> <<>>, out |-> <<>>, prev |-> <<>>, calls |-> 0]

RankIdle == [q |-> 0, F |-> <<>>, names |-> <<>>, top_n |-> 0,
             top_idx |-> <<>>, out |-> <<>>, done |-> FALSE]

MainIdle ==
    /\ corpus = << >>
    /\ featFile = [present |-> FALSE] /\ nameFile = [present |-> FALSE]
    /\ memo = << >>
    /\ pc = "off"
    /\ image_files = << >> /\ image_feats = << >>
    /\ filenames = << >> /\ features = << >>
    /\ uploaded = 0 /\ tempFile = 0 /\ query_to_use = << >>
    /\ results = << >> /\ err = "none"
    /\ ld = << >>

mainVars == <<corpus, featFile, nameFile, memo, pc, image_files, image_feats,
              filenames, features, uploaded, tempFile, query_to_use, results,
              err, ld>>

InitScan ==
    /\ MainIdle
    /\ rk = RankIdle
    /\ \E t \in SUBSET Candidates :
          /\ Cardinality(t) <= MaxFiles
          /\ sc = [ScanIdle EXCEPT !.tree = t]

\* one call of get_all_image_files on the tree; os.walk yields the files in
\* an order of its own
Scan ==
    /\ sc.calls < 2
    /\ \E w \in WalkOrders(sc.tree) :
          sc' = [sc EXCEPT !.walk = w, !.out = get_all_image_files(w),
                           !.prev = sc.out, !.calls = sc.calls + 1]
    /\ UNCHANGED <<mainVars, rk>>

NextScan == Scan

SpecScan == InitScan /\ [][NextScan]_vars

----------------------------------------------------------------------------
(* The ranker on its own: find_similar_images over bounded arguments.      *)

MaxRankImage == 3   \* distinct images behind the rows and the query

\* the file names of a corpus of n files, in scan order: "a", "b", ...
RankNames(n) == [i \in 1..n |-> <<96 + i>>]

InitRank ==
    /\ MainIdle
    /\ sc = ScanIdle
    /\ \E n \in 1..MaxRows :
       \E imgs \in [1..n -> 1..MaxRankImage] :
       \E q \in 1..MaxRankImage :
       \E t \in 1..MaxTopN :
          rk = [RankIdle EXCEPT
                  !.q = q,
                  !.F = [i \in 1..n |-> normalize(RawFeature(imgs[i]))],
                  !.names = RankNames(n),
                  !.top_n = t]

\* find_similar_images(query_img_path, features_db, filenames_db, model, top_n)
\* for a readable query image (lines 88-92)
Rank ==
    /\ ~rk.done
    /\ LET qf   == normalize(RawFeature(rk.q))
           sims == cosine_similarity(qf, rk.F)
       IN  \E order \in argsort_neg(sims) :
              LET top_idx == TopSlice(order, rk.top_n)
              IN  /\ ~IndexErrorIn(top_idx, rk.names)
                  /\ rk' = [rk EXCEPT !.top_idx = top_idx,
                                      !.out = ResultList(top_idx, sims, rk.names),
                                      !.done = TRUE]
    /\ UNCHANGED <<mainVars, sc>>

NextRank == Rank

SpecRank == InitRank /\ [][NextRank]_vars

----------------------------------------------------------------------------
(* The application: storage, the st.cache_data entry, and script runs.     *)

\* the files the image directory can hold
FileZ == [dir |-> RootDir, name |-> <<90, 46, 80, 78, 71>>]       \* im/Z.PNG
FileA == [dir |-> RootDir, name |-> <<97, 46, 106, 112, 103>>]    \* im/a.jpg
CorpusFiles == {FileZ, FileA}

\* os.path.join('temp', uploaded.name): "t/u.png"
TempPath == <<116, 47, 117, 46, 112, 110, 103>>

\* a cache artifact that does not exist
Absent == [present |-> FALSE, build |-> 0, data |-> <<>>]

\* A feature matrix carries its history with it: "of", the paths its rows
\* were computed from, and "imgs", the images those paths held then.  An
\* artifact carries "build", the build that wrote it: 1 or 2, a build taking
\* the number no artifact on disk has.
NoRows == [data |-> <<>>, of |-> <<>>, imgs |-> <<>>]

NoFeatFile == [present |-> FALSE, build |-> 0, rows |-> NoRows]

BuildNumber ==
    IF \/ (featFile.present /\ featFile.build = 1)
       \/ (nameFile.present /\ nameFile.build = 1)
    THEN 2 ELSE 1

NoLoad == [path |-> "none", both |-> FALSE, scanned |-> FALSE, scan |-> <<>>,
           embedded |-> <<>>, wrote |-> {}, build |-> 0,
           nNames |-> 0, nFeats |-> 0, tempMade |-> FALSE]

\* where a script run can have ended
Ended == {"done", "stopped", "failed"}

\* the image a path holds now, 0 when no such file exists
FileAt(path) ==
    IF path = TempPath THEN tempFile
    ELSE IF \E e \in CorpusFiles : PathJoin(e.dir, e.name) = path
         THEN corpus[CHOOSE e \in CorpusFiles : PathJoin(e.dir, e.name) = path]
         ELSE 0

\* os.path.basename(fp): what follows the last "/"
Basename(fp) ==
    LET slashes == {i \in 1..Len(fp) : fp[i] = 47}
        last == IF slashes = {} THEN 0
                ELSE CHOOSE i \in slashes : \A j \in slashes : j <= i
    IN  SubSeq(fp, last + 1, Len(fp))

\* list(img_display_names).index(option): the first position holding option
IndexOf(names, option) ==
    CHOOSE i \in 1..Len(names) :
        names[i] = option /\ \A j \in 1..(i - 1) : names[j] # option

\* os.path.exists(FEAT_CACHE) and os.path.exists(NAME_CACHE)  (line 77)
CacheExists_either == featFile.present \/ nameFile.present

CacheExists == featFile.present /\ nameFile.present

\* len(filenames) == 0  (line 64)
ScanIsEmpty_never(fns) == FALSE

ScanIsEmpty(fns) == Len(fns) = 0

Init ==
    /\ corpus \in [CorpusFiles -> 0..MaxImage]
    /\ featFile = NoFeatFile
    /\ nameFile = Absent
    /\ memo = <<>>
    /\ pc = "idle"
    /\ image_files = <<>> /\ image_feats = NoRows
    /\ filenames = <<>> /\ features = NoRows
    /\ uploaded = 0 /\ tempFile = 0 /\ query_to_use = <<>>
    /\ results = <<>> /\ err = "none"
    /\ ld = NoLoad
    /\ sc = ScanIdle
    /\ rk = RankIdle

\* what a new script run starts from: the globals of the previous run are gone
FreshRun ==
    /\ filenames' = <<>> /\ features' = NoRows
    /\ uploaded' = 0 /\ query_to_use' = <<>> /\ results' = <<>>

\* lines 112-113, the call served by st.cache_data (line 75): the function
\* body does not run, the memoised value is returned and the st.error the
\* memoised call made is replayed
LoadMemo ==
    /\ pc = "idle"
    /\ memo # <<>>
    /\ image_files' = memo[1].files
    /\ image_feats' = memo[1].feats
    /\ err' = IF memo[1].files = <<>> THEN "EmptyCorpus" ELSE "none"
    /\ ld' = [NoLoad EXCEPT !.path = "memo", !.both = CacheExists,
                            !.nNames = Len(memo[1].files),
                            !.nFeats = Len(memo[1].feats.data)]
    /\ pc' = "loaded"
    /\ FreshRun
    /\ UNCHANGED <<corpus, featFile, nameFile, memo, tempFile, sc, rk>>

\* lines 77-80: both artifacts exist, np.load returns what np.save stored
LoadHit ==
    /\ pc = "idle"
    /\ memo = <<>>
    /\ CacheExists
    /\ image_files' = nameFile.data
    /\ image_feats' = featFile.rows
    /\ memo' = << [files |-> nameFile.data, feats |-> featFile.rows] >>
    /\ err' = "none"
    /\ ld' = [NoLoad EXCEPT !.path = "hit", !.both = TRUE,
                            !.nNames = Len(nameFile.data),
                            !.nFeats = Len(featFile.rows.data)]
    /\ pc' = "loaded"
    /\ FreshRun
    /\ UNCHANGED <<corpus, featFile, nameFile, tempFile, sc, rk>>

\* lines 81-82 and 63-70: the scan and, for a corpus that is not empty, one
\* extract_features per path in scan order and the normalisation of the rows;
\* for an empty corpus st.error and the return of ([], []) (lines 64-66)
LoadBuild ==
    /\ pc = "idle"
    /\ memo = <<>>
    /\ ~CacheExists
    /\ \E w \in WalkOrders({e \in CorpusFiles : corpus[e] # 0}) :
         LET fns  == get_all_image_files(w)
             imgs == [i \in 1..Len(fns) |-> FileAt(fns[i])]
         IN  IF ScanIsEmpty(fns)
             THEN /\ image_files' = <<>>
                  /\ image_feats' = NoRows
                  /\ memo' = << [files |-> <<>>, feats |-> NoRows] >>
                  /\ err' = "EmptyCorpus"
                  /\ ld' = [NoLoad EXCEPT !.path = "build", !.both = FALSE,
                                          !.scanned = TRUE, !.scan = fns]
                  /\ pc' = "loaded"
                  /\ FreshRun
             ELSE /\ filenames' = fns
                  /\ features' =
                        [data |-> [i \in 1..Len(fns) |-> normalize(RawFeature(imgs[i]))],
                         of |-> fns, imgs |-> imgs]
                  /\ image_files' = <<>>
                  /\ image_feats' = NoRows
                  /\ memo' = memo
                  /\ err' = "none"
                  /\ ld' = [NoLoad EXCEPT !.path = "build", !.both = FALSE,
                                          !.scanned = TRUE, !.scan = fns,
                                          !.embedded = fns,
                                          !.build = BuildNumber]
                  /\ pc' = "save_feat"
                  /\ uploaded' = 0 /\ query_to_use' = <<>> /\ results' = <<>>
    /\ UNCHANGED <<corpus, featFile, nameFile, tempFile, sc, rk>>

\* line 71: np.save(FEAT_CACHE, features)
SaveFeat ==
    /\ pc = "save_feat"
    /\ featFile' = [present |-> TRUE, build |-> ld.build, rows |-> features]
    /\ ld' = [ld EXCEPT !.wrote = @ \cup {"feat"}]
    /\ pc' = "save_names"
    /\ UNCHANGED <<corpus, nameFile, memo, image_files, image_feats, filenames,
                   features, uploaded, tempFile, query_to_use, results, err,
                   sc, rk>>

\* lines 72-73 and the return to line 113: np.save(NAME_CACHE, filenames),
\* the pair is returned and memoised
SaveNames ==
    /\ pc = "save_names"
    /\ nameFile' = [present |-> TRUE, build |-> ld.build, data |-> filenames]
    /\ ld' = [ld EXCEPT !.wrote = @ \cup {"names"},
                        !.nNames = Len(filenames), !.nFeats = Len(features.data)]
    /\ image_files' = filenames
    /\ image_feats' = features
    /\ memo' = << [files |-> filenames, feats |-> features] >>
    /\ pc' = "loaded"
    /\ UNCHANGED <<corpus, featFile, filenames, features, uploaded, tempFile,
                   query_to_use, results, err, sc, rk>>

\* the build ends before an np.save call has opened its file: the process is
\* killed, or the call raises; nothing is memoised
Interrupt ==
    /\ pc \in {"save_feat", "save_names"}
    /\ pc' = "failed"
    /\ err' = "Interrupted"
    /\ UNCHANGED <<corpus, featFile, nameFile, memo, image_files, image_feats,
                   filenames, features, uploaded, tempFile, query_to_use,
                   results, ld, sc, rk>>

\* lines 115-116
CheckEmpty ==
    /\ pc = "loaded"
    /\ pc' = IF Len(image_files) = 0 THEN "stopped" ELSE "select"
    /\ UNCHANGED <<corpus, featFile, nameFile, memo, image_files, image_feats,
                   filenames, features, uploaded, tempFile, query_to_use,
                   results, err, ld, sc, rk>>

\* lines 118-134: the selectbox choice, the uploader's value, the query image
SelectQuery ==
    /\ pc = "select"
    /\ LET img_display_names == [i \in 1..Len(image_files) |-> Basename(image_files[i])]
       IN  \E o \in 1..Len(image_files) :
           \E up \in 0..MaxImage :
             LET option == img_display_names[o]
                 selected_path == image_files[IndexOf(img_display_names, option)]
             IN  /\ uploaded' = up
                 /\ IF up # 0
                    THEN /\ tempFile' = up
                         /\ query_to_use' = TempPath
                         /\ ld' = [ld EXCEPT !.tempMade = TRUE]
                         /\ pc' = "find"
                         /\ err' = err
                    ELSE /\ tempFile' = tempFile
                         /\ ld' = ld
                         /\ IF FileAt(selected_path) = 0
                            THEN /\ pc' = "failed" /\ err' = "FileNotFoundError"
                                 /\ query_to_use' = query_to_use
                            ELSE /\ pc' = "find" /\ err' = err
                                 /\ query_to_use' = selected_path
    /\ UNCHANGED <<corpus, featFile, nameFile, memo, image_files, image_feats,
                   filenames, features, results, sc, rk>>

FindSimilar_caching ==
    /\ pc = "find"
    /\ FileAt(query_to_use) # 0
    /\ featFile' = [featFile EXCEPT
                      !.rows.data = Append(@, normalize(RawFeature(FileAt(query_to_use))))]
    /\ pc' = "render"
    /\ UNCHANGED <<corpus, nameFile, memo, image_files, image_feats, filenames,
                   features, uploaded, tempFile, query_to_use, results, err,
                   ld, sc, rk>>

\* line 136: find_similar_images(query_to_use, image_feats, image_files, model, TOP_N)
FindSimilar ==
    /\ pc = "find"
    /\ IF FileAt(query_to_use) = 0
       THEN /\ pc' = "failed" /\ err' = "FileNotFoundError"
            /\ results' = results
       ELSE LET qf   == normalize(RawFeature(FileAt(query_to_use)))
                sims == cosine_similarity(qf, image_feats.data)
            IN  \E order \in argsort_neg(sims) :
                  LET top_idx == TopSlice(order, TOP_N)
                  IN  IF IndexErrorIn(top_idx, image_files)
                      THEN /\ pc' = "failed" /\ err' = "IndexError"
                           /\ results' = results
                      ELSE /\ pc' = "render" /\ err' = err
                           /\ results' = ResultList(top_idx, sims, image_files)
    /\ UNCHANGED <<corpus, featFile, nameFile, memo, image_files, image_feats,
                   filenames, features, uploaded, tempFile, query_to_use,
                   ld, sc, rk>>

\* lines 138-142: every result image is opened
Render ==
    /\ pc = "render"
    /\ IF \E k \in 1..Len(results) : FileAt(results[k][1]) = 0
       THEN pc' = "failed" /\ err' = "FileNotFoundError"
       ELSE pc' = "cleanup" /\ err' = err
    /\ UNCHANGED <<corpus, featFile, nameFile, memo, image_files, image_feats,
                   filenames, features, uploaded, tempFile, query_to_use,
                   results, ld, sc, rk>>

\* lines 144-145
Cleanup ==
    /\ pc = "cleanup"
    /\ tempFile' = IF uploaded # 0 THEN 0 ELSE tempFile
    /\ pc' = "done"
    /\ UNCHANGED <<corpus, featFile, nameFile, memo, image_files, image_feats,
                   filenames, features, uploaded, query_to_use, results, err,
                   ld, sc, rk>>

\* the script run has ended and its globals are gone; the next run starts
\* when the user touches a widget
EndRun ==
    /\ pc \in Ended
    /\ pc' = "idle"
    /\ image_files' = <<>> /\ image_feats' = NoRows
    /\ FreshRun
    /\ err' = "none"
    /\ ld' = NoLoad
    /\ UNCHANGED <<corpus, featFile, nameFile, memo, tempFile, sc, rk>>

\* the server process is started again: the st.cache_data entries are gone
Restart ==
    /\ pc = "idle"
    /\ memo # <<>>
    /\ memo' = <<>>
    /\ pc' = "idle"
    /\ UNCHANGED <<corpus, featFile, nameFile, image_files, image_feats,
                   filenames, features, uploaded, tempFile, query_to_use,
                   results, err, ld, sc, rk>>

\* The environment.  Its steps are taken only where the program's next
\* step reads what they change: at any other position the two steps commute,
\* and the environment's step is taken at the next such position instead.

\* the image directory changes: a file is added, replaced or removed
CorpusChange ==
    /\ pc \in {"idle", "select", "find", "render"}
    /\ \E e \in CorpusFiles : \E c \in 0..MaxImage :
          /\ c # corpus[e]
          /\ corpus' = [corpus EXCEPT ![e] = c]
    /\ UNCHANGED <<featFile, nameFile, memo, pc, image_files, image_feats,
                   filenames, features, uploaded, tempFile, query_to_use,
                   results, err, ld, sc, rk>>

\* a cache artifact is deleted by hand
DeleteFeat ==
    /\ pc \in {"idle", "save_feat", "save_names"}
    /\ featFile.present
    /\ featFile' = NoFeatFile
    /\ UNCHANGED <<corpus, nameFile, memo, pc, image_files, image_feats,
                   filenames, features, uploaded, tempFile, query_to_use,
                   results, err, ld, sc, rk>>

DeleteNames ==
    /\ pc \in {"idle", "save_feat", "save_names"}
    /\ nameFile.present
    /\ nameFile' = Absent
    /\ UNCHANGED <<corpus, featFile, memo, pc, image_files, image_feats,
                   filenames, features, uploaded, tempFile, query_to_use,
                   results, err, ld, sc, rk>>

Next ==
    \/ LoadMemo
    \/ LoadHit
    \/ LoadBuild
    \/ SaveFeat
    \/ SaveNames
    \/ Interrupt
    \/ CheckEmpty
    \/ SelectQuery
    \/ FindSimilar
    \/ Render
    \/ Cleanup
    \/ EndRun
    \/ Restart
    \/ CorpusChange
    \/ DeleteFeat
    \/ DeleteNames

Spec == Init /\ [][Next]_vars

----------------------------------------------------------------------------
(* Properties.                                                             *)

Range(f) == {f[i] : i \in 1..Len(f)}

\* the step that calls load_image_features (line 113)
LoadCall == pc = "idle" /\ pc' # "idle"

BothOnDisk == featFile.present /\ nameFile.present

StorageUnchanged == featFile' = featFile /\ nameFile' = nameFile

\* the call returned the pair on disk and did nothing else
TookHitPath ==
    /\ pc' = "loaded"
    /\ image_files' = nameFile.data
    /\ image_feats' = featFile.rows
    /\ ~ld'.scanned
    /\ ld'.embedded = <<>>
    /\ StorageUnchanged

\* the call scanned the corpus as it is now, in sorted order
ScannedCorpus ==
    /\ ld'.scanned
    /\ Range(ld'.scan) = {PathJoin(e.dir, e.name) : e \in {x \in CorpusFiles : corpus[x] # 0}}
    /\ \A i, j \in 1..Len(ld'.scan) : i < j => StrLess(ld'.scan[i], ld'.scan[j])

\* the call embedded every scanned path in order and went on to write
EmbeddedAll ==
    /\ ld'.embedded = ld'.scan
    /\ filenames' = ld'.scan
    /\ Len(features'.data) = Len(ld'.scan)
    /\ \A i \in 1..Len(ld'.scan) :
          features'.data[i] = normalize(RawFeature(FileAt(ld'.scan[i])))
    /\ pc' = "save_feat"

\* the two writes of a build store the pair the build computed, and the
\* build returns that pair
WritesStorePair ==
    /\ (pc = "save_feat" /\ pc' = "save_names") =>
          (featFile'.present /\ featFile'.rows = features /\ nameFile' = nameFile)
    /\ (pc = "save_names" /\ pc' = "loaded") =>
          /\ nameFile'.present /\ nameFile'.data = filenames
          /\ featFile' = featFile
          /\ image_files' = filenames /\ image_feats' = features

C2_AtomicPair ==
    (pc # "save_names" /\ featFile.present /\ nameFile.present)
        => featFile.build = nameFile.build

\* C3: a cache hit on artifacts of different lengths fails with
\* CacheCorruptError.
C3_CorruptDetected ==
    (ld.path = "hit" /\ ld.nNames # ld.nFeats) => err = "CacheCorruptError"

\* C4: the pair load_image_features returns is index aligned: as many rows
\* as filenames, and row i is the embedding of the image that filenames[i]
\* held when the row was computed.
C4_IndexAligned ==
    pc = "loaded" =>
        /\ Len(image_feats.data) = Len(image_files)
        /\ image_feats.of = image_files
        /\ \A i \in 1..Len(image_feats.data) :
              image_feats.data[i] = normalize(RawFeature(image_feats.imgs[i]))

\* C5: a run that wrote the uploaded image to temp/ has removed it when it
\* ends, however it ends.
C5_TempRemoved ==
    (pc \in Ended /\ ld.tempMade) => tempFile = 0

\* C8: a build whose scan is empty reports the empty corpus, embeds nothing,
\* writes nothing and the run stops at line 116: no query, no search, no
\* results; the same holds of a run that is served the memoised empty pair.
C8_EmptyCorpus ==
    /\ (ld.scanned /\ ld.scan = <<>>) =>
          /\ err = "EmptyCorpus"
          /\ ld.embedded = <<>>
          /\ ld.wrote = {}
          /\ image_files = <<>>
          /\ pc \in {"loaded", "stopped"}
          /\ query_to_use = <<>> /\ results = <<>>
    /\ (ld.path = "memo" /\ ld.nNames = 0) =>
          /\ err = "EmptyCorpus"
          /\ pc \in {"loaded", "stopped"}
          /\ query_to_use = <<>> /\ results = <<>>

\* a run stopped after a build that scanned an empty corpus
C8_Witness ==
    pc = "stopped" /\ ld.scanned /\ ld.scan = <<>> /\ ~featFile.present

\* C9: the step that runs find_similar_images, whether it returns or
\* raises, leaves both artifacts, the memoised pair and the loaded pair as
\* they were.
C9_QueryLeavesCache ==
    [][ (pc = "find" /\ pc' # "find") =>
          /\ featFile' = featFile
          /\ nameFile' = nameFile
          /\ memo' = memo
          /\ image_files' = image_files
          /\ image_feats' = image_feats ]_vars

\* find_similar_images raised on a query file that is gone, with a cache on disk
C9_Witness ==
    /\ pc = "failed" /\ err = "FileNotFoundError"
    /\ query_to_use # <<>> /\ results = <<>>
    /\ featFile.present /\ nameFile.present /\ memo # <<>>

----------------------------------------------------------------------------
(* Properties of the ranker on its own.                                    *)

RankSims == cosine_similarity(normalize(RawFeature(rk.q)), rk.F)

\* the position of corpus index i in top_idx, 0 when it was not returned
RankPos(i) ==
    IF \E k \in 1..Len(rk.top_idx) : rk.top_idx[k] = i
    THEN CHOOSE k \in 1..Len(rk.top_idx) : rk.top_idx[k] = i
    ELSE 0

\* C6: the result has min(top_n, corpus size) entries, each a corpus entry
\* with its score and none twice, in non-increasing score order, and no
\* omitted entry scores higher than a returned one.
C6_TopN ==
    rk.done =>
        /\ Len(rk.out) = (IF rk.top_n < Len(rk.F) THEN rk.top_n ELSE Len(rk.F))
        /\ Len(rk.top_idx) = Len(rk.out)
        /\ \A k \in 1..Len(rk.out) :
              /\ rk.top_idx[k] \in 1..Len(rk.F)
              /\ rk.out[k] = <<rk.names[rk.top_idx[k]], RankSims[rk.top_idx[k]]>>
        /\ \A k, l \in 1..Len(rk.out) :
              k < l => (rk.top_idx[k] # rk.top_idx[l] /\ rk.out[k][2] >= rk.out[l][2])
        /\ \A j \in 1..Len(rk.F) :
              RankPos(j) = 0 => \A k \in 1..Len(rk.out) : RankSims[j] <= rk.out[k][2]

\* a corpus of three with different scores, cut to the best two
C6_Witness ==
    /\ rk.done /\ Len(rk.F) = 3 /\ rk.top_n = 2 /\ Len(rk.out) = 2
    /\ rk.out[1][2] > rk.out[2][2]
    /\ \E j \in 1..3 : RankPos(j) = 0 /\ RankSims[j] < rk.out[2][2]

\* C7: of two corpus entries with equal scores the one with the lower scan
\* index comes first, and is the one returned when only one is.
C7_StableTies ==
    rk.done =>
        \A i, j \in 1..Len(rk.F) :
            (i < j /\ RankSims[i] = RankSims[j] /\ RankPos(j) # 0)
                => (RankPos(i) # 0 /\ RankPos(i) < RankPos(j))

----------------------------------------------------------------------------
(* Properties of the scanner on its own.                                   *)

\* the extensions as the specification lists them: jpg, jpeg, png, bmp, tiff
ImageExts ==
    { <<106, 112, 103>>, <<106, 112, 101, 103>>, <<112, 110, 103>>,
      <<98, 109, 112>>, <<116, 105, 102, 102>> }

\* name is <anything>.<ext> for a listed extension, letters of any case
IsImageName(name) ==
    \E x \in ImageExts :
        /\ Len(name) > Len(x)
        /\ name[Len(name) - Len(x)] = 46
        /\ \A i \in 1..Len(x) :
              LET c == name[Len(name) - Len(x) + i]
              IN  c = x[i] \/ c + 32 = x[i]

\* C10: once a scan has returned, its result holds exactly the paths of the
\* tree's files with a listed extension, each once, in ascending order of
\* the path string, and a second scan of the same tree returns the same list.
C10_Scan ==
    sc.calls > 0 =>
        /\ Range(sc.out) = {PathJoin(e.dir, e.name) : e \in {x \in sc.tree : IsImageName(x.name)}}
        /\ Len(sc.out) = Cardinality(Range(sc.out))
        /\ \A i, j \in 1..Len(sc.out) : i < j => StrLess(sc.out[i], sc.out[j])
        /\ sc.calls > 1 => sc.out = sc.prev

\* two scans of a tree that holds an upper-case extension, a file in a
\* sub-directory and a file that is no image, walked in an order that is
\* not the sorted one
C10_Witness ==
    /\ sc.calls = 2
    /\ Len(sc.out) = 2
    /\ Cardinality(sc.tree) = 3
    /\ \E e \in sc.tree : e.dir = SubDir /\ IsImageName(e.name)
    /\ \E e \in sc.tree : e.name = <<90, 46, 80, 78, 71>>
    /\ CollectFiles(sc.walk) # sc.out

====
